---- MODULE Spec2Model ----
(***************************************************************************)
(* A model of the CCUsage status API (cloud-run/src/ccusage/api.py).       *)
(*                                                                         *)
(* One GET /status request is followed through the code of status() and    *)
(* get_ccusage_status(): plan resolution, the limit probe, the usage       *)
(* fetch, and the computation of the report.  Text is modelled by TLA+     *)
(* strings (Len, SubSeq and \o act on them character by character), the    *)
(* two regular expressions by matchers written from their patterns,        *)
(* decimals by exact fractions, and instants by whole seconds.             *)
(***************************************************************************)
EXTENDS Integers, Sequences, FiniteSets, TLC

(***************************************************************************)
(* Bounds of the model.                                                    *)
(***************************************************************************)
\* The probe outputs are padded up to MaxPadOver characters past the cut.
MaxPadOver == 2
\* The clock is read at ClockBase plus 0, 1, ..., MaxClock steps of ClockStep
\* seconds.
MaxClock == 2
ClockStep == 30

(***************************************************************************)
(* Program constants.                                                      *)
(***************************************************************************)
\* out[:500], the cut of a probe message
ProbeMessageCut == 500
\* raw[:200], the cut of the usage command's output in the failure detail
FailureDetailCut == 200

(***************************************************************************)
(* Text.                                                                   *)
(***************************************************************************)
CharAt(s, i) == SubSeq(s, i, i)

\* Python's s[:n]
Prefix(s, n) == IF Len(s) <= n THEN s ELSE SubSeq(s, 1, n)

RECURSIVE Repeat(_, _)
Repeat(c, n) ==
    IF n <= 0 THEN ""
    ELSE IF n % 2 = 0 THEN LET half == Repeat(c, n \div 2) IN half \o half
    ELSE c \o Repeat(c, n - 1)

\* the characters str.strip() removes and \s matches
IsSpace(c) == c \in {" ", "\t", "\n", "\r", "\f"}

UpperLetters == "ABCDEFGHIJKLMNOPQRSTUVWXYZ"
LowerLetters == "abcdefghijklmnopqrstuvwxyz"

\* re.IGNORECASE: a character is compared by its lower-case form
Lower(c) ==
    IF \E i \in 1..26 : CharAt(UpperLetters, i) = c
    THEN CharAt(LowerLetters, CHOOSE i \in 1..26 : CharAt(UpperLetters, i) = c)
    ELSE c

\* the literal lit (lower case) stands in s at position i, case ignored
LitAt(s, i, lit) ==
    /\ i >= 1
    /\ i + Len(lit) - 1 <= Len(s)
    /\ \A k \in 1..Len(lit) : Lower(CharAt(s, i + k - 1)) = CharAt(lit, k)

\* "x in s" for a literal x, case kept
Contains(s, lit) ==
    \E i \in 1..(Len(s) - Len(lit) + 1) : SubSeq(s, i, i + Len(lit) - 1) = lit

\* str.strip()
Strip(s) ==
    LET keep == {i \in 1..Len(s) : ~IsSpace(CharAt(s, i))}
    IN  IF keep = {} THEN ""
        ELSE LET lo == CHOOSE i \in keep : \A j \in keep : i <= j
                 hi == CHOOSE i \in keep : \A j \in keep : i >= j
             IN  SubSeq(s, lo, hi)

(***************************************************************************)
(* Regular expressions.  A matcher maps a set of positions (the next       *)
(* character to read) to the set of positions after the piece.             *)
(***************************************************************************)
\* a literal, case ignored
ReLit(s, P, lit) == {p + Len(lit) : p \in {q \in P : LitAt(s, q, lit)}}

\* \s*
ReSpaces(s, P) ==
    {q \in 1..(Len(s) + 1) :
        \E p \in P : p <= q /\ \A k \in p..(q - 1) : IsSpace(CharAt(s, k))}

\* \s+
ReSpaces1(s, P) ==
    {q \in 1..(Len(s) + 1) :
        \E p \in P : p < q /\ \A k \in p..(q - 1) : IsSpace(CharAt(s, k))}

\* [...]? for a set of characters
ReOptChar(s, P, chars) ==
    P \cup {p + 1 : p \in {q \in P : q <= Len(s) /\ CharAt(s, q) \in chars}}

\* (?:a|b|...) for a set of literals
ReAlt(s, P, lits) == UNION {ReLit(s, P, lit) : lit \in lits}

\* _LIMIT_HIT.search(out)
LIMIT_HIT(out) ==
    LET starts == 1..Len(out)
        \* 5\s*[- ]?\s*hour\s+limit\s+(?:reached|readched)
        a1 == ReLit(out, starts, "5")
        a2 == ReSpaces(out, ReOptChar(out, ReSpaces(out, a1), {"-", " "}))
        a3 == ReSpaces1(out, ReLit(out, a2, "hour"))
        a4 == ReSpaces1(out, ReLit(out, a3, "limit"))
        a5 == ReAlt(out, a4, {"reached", "readched"})
        \* rate\s*limit
        b1 == ReSpaces(out, ReLit(out, starts, "rate"))
        b2 == ReLit(out, b1, "limit")
    IN  a5 # {} \/ b2 # {}

\* (?:at|on|in)?
ReOptWord(s, P) == P \cup ReAlt(s, P, {"at", "on", "in"})

\* (?:reset[s]?\s*(?:at|on|in)?\s*[:\-]?\s*): the positions after the group
\* that stands before (?P<when>...)
ResetLead(out) ==
    LET starts == 1..Len(out)
        r1 == ReOptChar(out, ReLit(out, starts, "reset"), {"s", "S"})
        r2 == ReOptWord(out, ReSpaces(out, r1))
        r3 == ReOptChar(out, ReSpaces(out, r2), {":", "-"})
    IN  ReSpaces(out, r3)

\* (?P<when>[^\n\r]+): one character that is no line break is enough
ReWhen(out, P) == \E p \in P : p <= Len(out) /\ CharAt(out, p) \notin {"\n", "\r"}

\* _RESET_HINT.search(out)
RESET_HINT(out) == ReWhen(out, ResetLead(out))

(***************************************************************************)
(* Exceptions.  A call yields [exc, val]: the exception it raised (NoExc   *)
(* when it returned) and the value it returned.                            *)
(***************************************************************************)
NoExc == [cls |-> "", msg |-> ""]
Exc(cls, msg) == [cls |-> cls, msg |-> msg]
Raise(e) == [exc |-> e, val |-> [none |-> TRUE]]
Return(v) == [exc |-> NoExc, val |-> v]
Raised(r) == r.exc # NoExc

\* the classes "except ValueError" catches
ValueErrors == {"ValueError", "JSONDecodeError", "UnicodeDecodeError"}
\* the classes "except RuntimeError" catches
RuntimeErrors == {"RuntimeError"}

(***************************************************************************)
(* The command runner.  What subprocess.run does with a command is an      *)
(* input: it raises (the time-out of 30 seconds, a command that cannot be  *)
(* spawned, output that is no text), or it ends with an exit code and the  *)
(* two captured streams.                                                   *)
(***************************************************************************)
Ended(code, stdout, stderr) ==
    [how |-> "ended", returncode |-> code, stdout |-> stdout, stderr |-> stderr]
Failed(how) == [how |-> how, returncode |-> 0, stdout |-> "", stderr |-> ""]

RECURSIVE ReprItems(_, _)
ReprItems(cmd, i) ==
    IF i > Len(cmd) THEN ""
    ELSE (IF i > 1 THEN ", " ELSE "") \o "'" \o cmd[i] \o "'" \o ReprItems(cmd, i + 1)

\* str() of the list of arguments
ReprList(cmd) == "[" \o ReprItems(cmd, 1) \o "]"

\* the exception subprocess.run(cmd, ..., timeout=30) raises
RunException(cmd, how) ==
    CASE how = "timeout" ->
            Exc("TimeoutExpired",
                "Command '" \o ReprList(cmd) \o "' timed out after 30 seconds")
      [] how = "spawn" ->
            Exc("FileNotFoundError",
                "[Errno 2] No such file or directory: '" \o cmd[1] \o "'")
      [] how = "decode" ->
            Exc("UnicodeDecodeError",
                "'utf-8' codec can't decode byte 0xff in position 0: invalid start byte")

\* _run(cmd): (returncode, output), the output being stdout, then a line
\* break and stderr when there is any, stripped
_run(cmd, outcome) ==
    IF outcome.how # "ended" THEN Raise(RunException(cmd, outcome.how))
    ELSE LET out == outcome.stdout \o
                    (IF outcome.stderr # "" THEN "\n" \o outcome.stderr ELSE "")
         IN  Return([code |-> outcome.returncode, out |-> Strip(out)])

(***************************************************************************)
(* The limit probe.                                                        *)
(***************************************************************************)
LimitInfo(type, message) == [type |-> type, message |-> message]

\* the probe without its try/except: a failure to run the command is raised
ProbeWithoutExcept(test_cmd, outcome) ==
    LET ran == _run(test_cmd, outcome)
        out == ran.val.out
    IN  IF Raised(ran) THEN Raise(ran.exc)
        ELSE IF LIMIT_HIT(out) \/ RESET_HINT(out)
             THEN Return(LimitInfo("limit", Prefix(out, ProbeMessageCut)))
        ELSE IF ~Contains(Strip(out), "2")
             THEN Return(LimitInfo("error", Prefix(out, ProbeMessageCut)))
        ELSE Return(LimitInfo("not_limited", Strip(out)))

\* the probe with its two checks in the other order: the "2" is looked for
\* before the limit patterns
ProbeAnswerFirst(test_cmd, outcome) ==
    LET ran == _run(test_cmd, outcome)
        out == ran.val.out
    IN  IF Raised(ran) THEN Return(LimitInfo("error", ran.exc.msg))
        ELSE IF ~Contains(Strip(out), "2")
             THEN Return(LimitInfo("error", Prefix(out, ProbeMessageCut)))
        ELSE IF LIMIT_HIT(out) \/ RESET_HINT(out)
             THEN Return(LimitInfo("limit", Prefix(out, ProbeMessageCut)))
        ELSE Return(LimitInfo("not_limited", Strip(out)))

\* _probe_limit_via_claude(test_cmd)
_probe_limit_via_claude(test_cmd, outcome) ==
    LET ran == _run(test_cmd, outcome)
        out == ran.val.out
    IN  IF Raised(ran) THEN Return(LimitInfo("error", ran.exc.msg))
        ELSE IF LIMIT_HIT(out) \/ RESET_HINT(out)
             THEN Return(LimitInfo("limit", Prefix(out, ProbeMessageCut)))
        ELSE IF ~Contains(Strip(out), "2")
             THEN Return(LimitInfo("error", Prefix(out, ProbeMessageCut)))
        ELSE Return(LimitInfo("not_limited", Strip(out)))

(***************************************************************************)
(* Decimals.  A float is modelled by the exact fraction n/d, d > 0.        *)
(***************************************************************************)
Abs(a) == IF a < 0 THEN -a ELSE a

RECURSIVE GCD(_, _)
GCD(a, b) == IF b = 0 THEN a ELSE GCD(b, a % b)

Rat(n, d) ==
    LET g == GCD(Abs(n), d)
    IN  IF n = 0 THEN [n |-> 0, d |-> 1] ELSE [n |-> n \div g, d |-> d \div g]

RatInt(a) == [n |-> a, d |-> 1]

\* a * b, the common factors taken out before multiplying
RatMul(a, b) ==
    IF a.n = 0 \/ b.n = 0 THEN [n |-> 0, d |-> 1]
    ELSE LET g1 == GCD(Abs(a.n), b.d)
             g2 == GCD(Abs(b.n), a.d)
         IN  [n |-> (a.n \div g1) * (b.n \div g2),
              d |-> (a.d \div g2) * (b.d \div g1)]

\* a / b for b # 0
RatDiv(a, b) ==
    RatMul(a, IF b.n < 0 THEN [n |-> -b.d, d |-> -b.n] ELSE [n |-> b.d, d |-> b.n])

RatSub(a, b) == Rat(a.n * b.d - b.n * a.d, a.d * b.d)

RatFloor(a) == a.n \div a.d

RatPositive(a) == a.n > 0

RECURSIVE Pow10(_)
Pow10(k) == IF k = 0 THEN 1 ELSE 10 * Pow10(k - 1)

\* round(x, places).  Python rounds the binary float: where the fraction lies
\* exactly half-way between two decimals the float's own error decides
\* (round(9.5 / 19000 * 100, 1) is 0.1, round(0.25, 1) is 0.2), so both
\* neighbours are results there.
round(x, places) ==
    LET scaled == RatMul(x, RatInt(Pow10(places)))
        q == scaled.n \div scaled.d
        r == scaled.n - q * scaled.d
    IN  IF 2 * r < scaled.d THEN {Rat(q, Pow10(places))}
        ELSE IF 2 * r > scaled.d THEN {Rat(q + 1, Pow10(places))}
        ELSE {Rat(q, Pow10(places)), Rat(q + 1, Pow10(places))}

(***************************************************************************)
(* Instants.  A datetime is its date (days since 1970-01-01) and time of   *)
(* day (seconds) as written, and its offset from UTC in seconds when it    *)
(* has one; fractions of a second are dropped.                             *)
(***************************************************************************)
SecondsPerDay == 86400
\* 9999-12-31, datetime.max
MaxDay == 2932896

DaysFromCivil(y, m, d) ==
    LET yy == IF m <= 2 THEN y - 1 ELSE y
        era == yy \div 400
        yoe == yy - era * 400
        mp == (m + 9) % 12
        doy == (153 * mp + 2) \div 5 + d - 1
        doe == yoe * 365 + yoe \div 4 - yoe \div 100 + doy
    IN  era * 146097 + doe - 719468

CivilFromDays(z) ==
    LET zz == z + 719468
        era == zz \div 146097
        doe == zz - era * 146097
        yoe == (doe - doe \div 1460 + doe \div 36524 - doe \div 146096) \div 365
        doy == doe - (365 * yoe + yoe \div 4 - yoe \div 100)
        mp == (5 * doy + 2) \div 153
        m == IF mp < 10 THEN mp + 3 ELSE mp - 9
    IN  [year |-> yoe + era * 400 + (IF m <= 2 THEN 1 ELSE 0),
         month |-> m,
         day |-> doy - (153 * mp + 2) \div 5 + 1]

DaysInMonth(y, m) == DaysFromCivil(IF m = 12 THEN y + 1 ELSE y, (m % 12) + 1, 1)
                     - DaysFromCivil(y, m, 1)

Datetime(day, sec, aware, off) == [day |-> day, sec |-> sec, aware |-> aware, off |-> off]

DecimalDigits == "0123456789"
IsDigit(c) == \E k \in 1..10 : CharAt(DecimalDigits, k) = c
DigitValue(c) == (CHOOSE k \in 1..10 : CharAt(DecimalDigits, k) = c) - 1

AllDigits(s) == \A i \in 1..Len(s) : IsDigit(CharAt(s, i))

RECURSIVE Number(_)
Number(s) ==
    IF s = "" THEN 0
    ELSE 10 * Number(SubSeq(s, 1, Len(s) - 1)) + DigitValue(CharAt(s, Len(s)))

\* n written with at least width digits
RECURSIVE Digits(_, _)
Digits(n, width) ==
    IF n < 10 /\ width <= 1 THEN CharAt(DecimalDigits, n + 1)
    ELSE Digits(n \div 10, width - 1) \o CharAt(DecimalDigits, (n % 10) + 1)

\* str.replace(old, new)
RECURSIVE Replace(_, _, _)
Replace(s, old, new) ==
    IF Len(s) < Len(old) THEN s
    ELSE IF SubSeq(s, 1, Len(old)) = old
         THEN new \o Replace(SubSeq(s, Len(old) + 1, Len(s)), old, new)
    ELSE CharAt(s, 1) \o Replace(SubSeq(s, 2, Len(s)), old, new)

\* datetime.fromisoformat for the layouts YYYY-MM-DD?HH:MM:SS, with an
\* optional fraction of 3 or 6 digits and an optional offset +HH:MM or
\* -HH:MM; no text of another layout that Python would accept is drawn.
fromisoformat(text) ==
    LET part(i, j) == SubSeq(text, i, j)
        invalid == Raise(Exc("ValueError", "Invalid isoformat string: '" \o text \o "'"))
        shaped ==
            /\ Len(text) >= 19
            /\ AllDigits(part(1, 4)) /\ part(5, 5) = "-"
            /\ AllDigits(part(6, 7)) /\ part(8, 8) = "-"
            /\ AllDigits(part(9, 10))
            /\ AllDigits(part(12, 13)) /\ part(14, 14) = ":"
            /\ AllDigits(part(15, 16)) /\ part(17, 17) = ":"
            /\ AllDigits(part(18, 19))
        y == Number(part(1, 4))
        mo == Number(part(6, 7))
        d == Number(part(9, 10))
        h == Number(part(12, 13))
        mi == Number(part(15, 16))
        sc == Number(part(18, 19))
        ranged ==
            /\ y >= 1 /\ mo \in 1..12 /\ d >= 1 /\ d <= DaysInMonth(y, mo)
            /\ h < 24 /\ mi < 60 /\ sc < 60
        \* the end of the fraction, when there is one
        frac ==
            IF Len(text) >= 20 /\ part(20, 20) = "."
            THEN IF Len(text) >= 26 /\ AllDigits(part(21, 26)) THEN 26
                 ELSE IF Len(text) >= 23 /\ AllDigits(part(21, 23)) THEN 23
                 ELSE 0
            ELSE 19
        zone == SubSeq(text, frac + 1, Len(text))
        zoned ==
            /\ Len(zone) = 6
            /\ CharAt(zone, 1) \in {"+", "-"}
            /\ AllDigits(SubSeq(zone, 2, 3)) /\ CharAt(zone, 4) = ":"
            /\ AllDigits(SubSeq(zone, 5, 6))
            /\ Number(SubSeq(zone, 2, 3)) < 24 /\ Number(SubSeq(zone, 5, 6)) < 60
        off == (IF CharAt(zone, 1) = "-" THEN -1 ELSE 1)
               * (Number(SubSeq(zone, 2, 3)) * 3600 + Number(SubSeq(zone, 5, 6)) * 60)
        at == DaysFromCivil(y, mo, d)
        secs == h * 3600 + mi * 60 + sc
    IN  IF ~shaped THEN invalid
        ELSE IF ~ranged \/ frac = 0 THEN invalid
        ELSE IF zone = "" THEN Return(Datetime(at, secs, FALSE, 0))
        ELSE IF zoned THEN Return(Datetime(at, secs, TRUE, off))
        ELSE invalid

\* _utc_from_iso8601(zdt)
_utc_from_iso8601(zdt) == fromisoformat(Replace(zdt, "Z", "+00:00"))

\* _fmt_utc(ts): the date and time as the datetime holds them, to the minute
_fmt_utc(ts) ==
    LET c == CivilFromDays(ts.day)
    IN  Digits(c.year, 4) \o "-" \o Digits(c.month, 2) \o "-" \o Digits(c.day, 2)
        \o " " \o Digits(ts.sec \div 3600, 2) \o ":" \o Digits((ts.sec % 3600) \div 60, 2)
        \o " UTC"

\* (a - b).total_seconds(); Python refuses to subtract a datetime without an
\* offset from one with an offset
SecondsBetween(a, b) ==
    IF a.aware # b.aware
    THEN Raise(Exc("TypeError", "can't subtract offset-naive and offset-aware datetimes"))
    ELSE Return((a.day - b.day) * SecondsPerDay + (a.sec - a.off) - (b.sec - b.off))

\* ts + timedelta(minutes = remain / rate) for rate > 0; the result is past
\* datetime.max when its date is
PlusMinutes(ts, remain, rate) ==
    LET perDay == RatMul(rate, RatInt(1440))
        days == RatFloor(RatDiv(remain, perDay))
        rest == RatSub(remain, RatMul(RatInt(days), perDay))
        secs == RatFloor(RatMul(RatDiv(rest, rate), RatInt(60)))
        total == ts.sec + secs
        day == ts.day + days + total \div SecondsPerDay
    IN  IF ts.day + days > MaxDay \/ day > MaxDay
        THEN Raise(Exc("OverflowError", "date value out of range"))
        ELSE Return(Datetime(day, total % SecondsPerDay, ts.aware, ts.off))

(***************************************************************************)
(* Plans.                                                                  *)
(***************************************************************************)
PlanEntry(tokens, cost, messages, name) ==
    [token_limit |-> tokens, cost_limit |-> cost, message_limit |-> messages,
     display_name |-> name]

\* the static table; token_limit counts thousands of tokens
PLAN_CONFIG ==
    [key \in {"Pro", "Max5", "Max20"} |->
        CASE key = "Pro" -> PlanEntry(19000, Rat(180, 10), 250, "Pro")
          [] key = "Max5" -> PlanEntry(88000, Rat(350, 10), 1000, "Max5")
          [] key = "Max20" -> PlanEntry(220000, Rat(1400, 10), 2000, "Max20")]

\* a resolution that ignores the case of the plan
NormalizeIgnoringCase(table, plan) ==
    LET same(a, b) == /\ Len(a) = Len(b)
                      /\ \A i \in 1..Len(a) : Lower(CharAt(a, i)) = Lower(CharAt(b, i))
    IN  IF \E key \in DOMAIN table : same(key, plan)
        THEN Return(table[CHOOSE key \in DOMAIN table : same(key, plan)])
        ELSE Raise(Exc("ValueError", "Unknown plan: " \o plan))

\* _normalize_plan(plan) against the table; the plan of a request is a str
_normalize_plan(table, plan) ==
    LET key == plan
    IN  IF key \notin DOMAIN table
        THEN Raise(Exc("ValueError", "Unknown plan: " \o plan))
        ELSE Return(table[key])

(***************************************************************************)
(* The usage document.  A key of a JSON object is Absent or Present with   *)
(* its value.                                                              *)
(***************************************************************************)
Absent == [present |-> FALSE]
Present(v) == [present |-> TRUE, v |-> v]

\* dict.get(key, default)
Get(field, default) == IF field.present THEN field.v ELSE default

EmptyBlock ==
    [isActive |-> Absent, costUSD |-> Absent, totalTokens |-> Absent,
     entries |-> Absent, endTime |-> Absent, burnRate |-> Absent, models |-> Absent]

BurnRate(tokensPerMinute, costPerHour) ==
    [tokensPerMinuteForIndicator |-> tokensPerMinute, costPerHour |-> costPerHour]

JsonArray == [type |-> "array", blocks |-> Absent]
JsonObject(blocks) == [type |-> "object", blocks |-> blocks]

\* the block of the repository's test, _mock_ccusage_data()
MockBlock ==
    [EmptyBlock EXCEPT
        !.isActive = Present(TRUE), !.costUSD = Present(Rat(64, 10)),
        !.totalTokens = Present(15827), !.entries = Present(180),
        !.endTime = Present("2025-08-23T14:00:00.000Z"),
        !.burnRate = Present(BurnRate(Present(Rat(1289, 10)), Present(Rat(3366, 1000))))]

\* the JSON texts the usage command is taken to print, each with the value
\* json.loads gives for it
UsageDocuments == {
    [text |-> "[]", value |-> JsonArray],
    [text |-> "{}", value |-> JsonObject(Absent)],
    [text |-> "{\"blocks\": []}", value |-> JsonObject(Present(<<>>))],
    [text |-> "{\"blocks\": [{}]}", value |-> JsonObject(Present(<<EmptyBlock>>))],
    [text |-> "{\"blocks\": [{\"endTime\": \"soon\"}]}",
     value |-> JsonObject(Present(<<[EmptyBlock EXCEPT !.endTime = Present("soon")]>>))],
    [text |-> "{\"blocks\": [{\"endTime\": \"2025-08-23T14:00:00\"}]}",
     value |-> JsonObject(Present(
        <<[EmptyBlock EXCEPT !.endTime = Present("2025-08-23T14:00:00")]>>))],
    [text |-> "{\"blocks\": [{\"endTime\": \"2025-08-23T14:00:00.000Z\"}]}",
     value |-> JsonObject(Present(
        <<[EmptyBlock EXCEPT !.endTime = Present("2025-08-23T14:00:00.000Z")]>>))],
    [text |-> "{\"blocks\": [{\"isActive\": true, \"costUSD\": 6.4, \"totalTokens\": 15827, "
              \o "\"entries\": 180, \"endTime\": \"2025-08-23T14:00:00.000Z\", \"burnRate\": "
              \o "{\"tokensPerMinuteForIndicator\": 128.9, \"costPerHour\": 3.366}}]}",
     value |-> JsonObject(Present(<<MockBlock>>))],
    [text |-> "{\"blocks\": [{\"isActive\": true, \"costUSD\": 6.4, \"totalTokens\": 15827, "
              \o "\"entries\": 180, \"endTime\": \"2025-08-23T16:30:00.000Z\", \"burnRate\": "
              \o "{\"tokensPerMinuteForIndicator\": 0, \"costPerHour\": 0}}, {}]}",
     value |-> JsonObject(Present(
        <<[MockBlock EXCEPT
            !.endTime = Present("2025-08-23T16:30:00.000Z"),
            !.burnRate = Present(BurnRate(Present(RatInt(0)), Present(RatInt(0))))],
          EmptyBlock>>))],
    [text |-> "{\"blocks\": [{\"isActive\": false, \"costUSD\": 21.5, \"totalTokens\": 25000000, "
              \o "\"entries\": 300, \"endTime\": \"2025-08-22T23:00:00+09:00\", \"burnRate\": "
              \o "{\"tokensPerMinuteForIndicator\": 1000, \"costPerHour\": 1.2}, "
              \o "\"models\": [\"opus\"]}]}",
     value |-> JsonObject(Present(
        <<[EmptyBlock EXCEPT
            !.isActive = Present(FALSE), !.costUSD = Present(Rat(215, 10)),
            !.totalTokens = Present(25000000), !.entries = Present(300),
            !.endTime = Present("2025-08-22T23:00:00+09:00"),
            !.burnRate = Present(BurnRate(Present(RatInt(1000)), Present(Rat(12, 10)))),
            !.models = Present(<<"opus">>)]>>))],
    [text |-> "{\"blocks\": [{\"costUSD\": 0.09, \"totalTokens\": 9500, \"entries\": 1, "
              \o "\"endTime\": \"2025-08-23T14:01:00.000Z\", \"burnRate\": {}}]}",
     value |-> JsonObject(Present(
        <<[EmptyBlock EXCEPT
            !.costUSD = Present(Rat(9, 100)), !.totalTokens = Present(9500),
            !.entries = Present(1),
            !.endTime = Present("2025-08-23T14:01:00.000Z"),
            !.burnRate = Present(BurnRate(Absent, Absent))]>>))],
    [text |-> "{\"blocks\": [{\"totalTokens\": 15827, \"endTime\": \"2025-08-23T14:00:00.000Z\", "
              \o "\"burnRate\": {\"tokensPerMinuteForIndicator\": -5.0}}]}",
     value |-> JsonObject(Present(
        <<[EmptyBlock EXCEPT
            !.totalTokens = Present(15827),
            !.endTime = Present("2025-08-23T14:00:00.000Z"),
            !.burnRate = Present(BurnRate(Present(RatInt(-5)), Absent))]>>))],
    [text |-> "{\"blocks\": [{\"endTime\": \"2025-08-23T14:00:00.000Z\", "
              \o "\"burnRate\": {\"tokensPerMinuteForIndicator\": 0.004}}]}",
     value |-> JsonObject(Present(
        <<[EmptyBlock EXCEPT
            !.endTime = Present("2025-08-23T14:00:00.000Z"),
            !.burnRate = Present(BurnRate(Present(Rat(4, 1000)), Absent))]>>))]
    }

\* json.loads(raw): a text that is none of the documents is no JSON
JsonLoads(raw) ==
    IF \E doc \in UsageDocuments : doc.text = raw
    THEN Return((CHOOSE doc \in UsageDocuments : doc.text = raw).value)
    ELSE Raise(Exc("JSONDecodeError", "Expecting value: line 1 column 1 (char 0)"))

\* data["blocks"][0]
FirstBlock(data) ==
    IF data.type # "object"
    THEN Raise(Exc("TypeError", "list indices must be integers or slices, not str"))
    ELSE IF ~data.blocks.present THEN Raise(Exc("KeyError", "'blocks'"))
    ELSE IF data.blocks.v = <<>> THEN Raise(Exc("IndexError", "list index out of range"))
    ELSE Return(data.blocks.v[1])

(***************************************************************************)
(* The report.                                                             *)
(***************************************************************************)
Max(a, b) == IF a >= b THEN a ELSE b

\* the tokens left as they are, not divided by 1000
TokensUsedRaw(tokens_used_raw) == RatInt(tokens_used_raw)

\* tokens_used = tokens_used_raw / 1000
TokensUsed(tokens_used_raw) == Rat(tokens_used_raw, 1000)

\* the ratio without the factor 100
PercentAsRatio(used, limit) ==
    IF limit.n # 0 THEN RatDiv(used, limit) ELSE RatInt(0)

\* (used / limit * 100) if limit else 0.0
Percent(used, limit) ==
    IF limit.n # 0 THEN RatMul(RatDiv(used, limit), RatInt(100)) ELSE RatInt(0)

\* the minutes without max(0, ...)
RemainingMinutesUnclamped(seconds) == seconds \div 60

\* max(0, int((reset_at - now_utc).total_seconds() // 60))
RemainingMinutes(seconds) == Max(0, seconds \div 60)

\* the tokens left without max(0.0, ...)
RemainTokensUnclamped(token_limit, tokens_used_raw) ==
    IF token_limit # 0 THEN token_limit * 1000 - tokens_used_raw ELSE 0

\* max(0.0, token_limit * 1000 - tokens_used_raw) if token_limit else 0.0
RemainTokensRaw(token_limit, tokens_used_raw) ==
    IF token_limit # 0 THEN Max(0, token_limit * 1000 - tokens_used_raw) ELSE 0

\* the prediction: the time the tokens run out at the burn rate, or "N/A"
TokensWillRunOut(now_utc, remain_tokens_raw, burn_rate) ==
    IF RatPositive(burn_rate)
    THEN LET predict_time == PlusMinutes(now_utc, RatInt(remain_tokens_raw), burn_rate)
         IN  IF Raised(predict_time) THEN predict_time
             ELSE Return(_fmt_utc(predict_time.val))
    ELSE Return("N/A")

\* the body of get_ccusage_status after the usage command has ended with
\* code 0: the results it can have (a report, or the exception raised)
Report(cfg, limit_info, raw, now_utc) ==
    LET data == JsonLoads(raw)
        first == FirstBlock(data.val)
        block == first.val
        active == Get(block.isActive, FALSE)
        cost == Get(block.costUSD, RatInt(0))
        tokens_used_raw == Get(block.totalTokens, 0)
        tokens_used == TokensUsed(tokens_used_raw)
        msgs == Get(block.entries, 0)
        models == Get(block.models, <<>>)
        cost_pct == Percent(cost, cfg.cost_limit)
        token_pct == Percent(tokens_used, RatInt(cfg.token_limit))
        msg_pct == Percent(RatInt(msgs), RatInt(cfg.message_limit))
        reset_at == _utc_from_iso8601(block.endTime.v)
        seconds == SecondsBetween(reset_at.val, now_utc)
        remaining_minutes == RemainingMinutes(seconds.val)
        reset_at_str == _fmt_utc(reset_at.val)
        burn == Get(block.burnRate, BurnRate(Absent, Absent))
        burn_rate == Get(burn.tokensPerMinuteForIndicator, RatInt(0))
        cost_rate == IF Get(burn.costPerHour, RatInt(0)).n # 0
                     THEN RatDiv(burn.costPerHour.v, RatInt(60)) ELSE RatInt(0)
        remain_tokens_raw == RemainTokensRaw(cfg.token_limit, tokens_used_raw)
        tokens_will_run_out == TokensWillRunOut(now_utc, remain_tokens_raw, burn_rate)
    IN  IF Raised(data) THEN {Raise(data.exc)}
        ELSE IF Raised(first) THEN {Raise(first.exc)}
        ELSE IF ~block.endTime.present THEN {Raise(Exc("KeyError", "'endTime'"))}
        ELSE IF Raised(reset_at) THEN {Raise(reset_at.exc)}
        ELSE IF Raised(seconds) THEN {Raise(seconds.exc)}
        ELSE IF Raised(tokens_will_run_out) THEN {Raise(tokens_will_run_out.exc)}
        ELSE {Return(
                [limit |-> limit_info,
                 plan |-> cfg.display_name,
                 active |-> active,
                 models |-> models,
                 cost |-> [used |-> cost, limit |-> cfg.cost_limit, percent |-> cp],
                 tokens |-> [used |-> tokens_used, limit |-> cfg.token_limit,
                             percent |-> tp],
                 messages |-> [used |-> msgs, limit |-> cfg.message_limit,
                               percent |-> mp],
                 time_to_reset |-> [remaining_minutes |-> remaining_minutes,
                                    reset_at |-> reset_at_str],
                 burn_rate |-> burn_rate,
                 cost_rate |-> cr,
                 predictions |-> [tokens_will_run_out |-> tokens_will_run_out.val,
                                  limit_resets_at |-> reset_at_str]]) :
              <<cp, tp, mp, cr>> \in round(cost_pct, 1) \X round(token_pct, 1)
                                     \X round(msg_pct, 1) \X round(cost_rate, 4)}

\* the failure without the command's output
CcusageFailedBare(raw) == Exc("RuntimeError", "ccusage failed")

\* the usage command's failure: raise RuntimeError(f"ccusage failed: {raw[:200]}")
CcusageFailed(raw) ==
    Exc("RuntimeError", "ccusage failed: " \o Prefix(raw, FailureDetailCut))

(***************************************************************************)
(* The HTTP surface.                                                       *)
(***************************************************************************)
NoBody == [none |-> TRUE]
Response(status_code, detail, body) ==
    [status_code |-> status_code, detail |-> detail, body |-> body]

\* status(): what the route answers when get_ccusage_status has returned or
\* raised; an exception of no caught class is the framework's 500
status(result) ==
    IF ~Raised(result) THEN Response(200, "", result.val)
    ELSE IF result.exc.cls \in ValueErrors THEN Response(400, result.exc.msg, NoBody)
    ELSE IF result.exc.cls \in RuntimeErrors THEN Response(502, result.exc.msg, NoBody)
    ELSE Response(500, "Internal Server Error", NoBody)

\* health()
health == Response(200, "", [status |-> "healthy", service |-> "ccusage_api"])

(***************************************************************************)
(* Inputs.                                                                 *)
(***************************************************************************)
\* the plan of a request
Plans == {"Pro", "Max5", "Max20", "pro", "MAX20", "Max5 ", "", "Free"}

\* test_cmd: the default, and a command with a long argument
DefaultTestCmd == <<"claude", "-p", "1+1">>
LongTestCmd == <<"claude", "-p", Repeat("1+", 300) \o "1">>
TestCommands == {DefaultTestCmd, LongTestCmd}

UsageCmd == <<"npx", "ccusage@latest", "blocks", "--active", "--json">>

RunFailures == {Failed("timeout"), Failed("spawn"), Failed("decode")}

\* lengths around a cut
Around(cut) == {cut - 1 + k : k \in 0..MaxPadOver}

ProbeTexts ==
    {"2", "4", "", "The answer is 2.", "  2 \n",
     "5-hour limit reached", "5 hour limit readched", "5hour  LIMIT\nReached 2",
     "hour limit reached 2", "Rate Limit exceeded", "ratelimit 2",
     "Your limit resets at: 3pm", "reset 2", "Session reset.\n2", "RESET\n2",
     "2 reset", "reset"}

LongProbeTexts ==
    UNION {{"2 " \o Repeat("x", n), Repeat("x", n), "rate limit " \o Repeat("x", n),
            Repeat("x", n) \o " 2 rate limit"} : n \in Around(ProbeMessageCut)}

\* what running the probe command can come to
ProbeOutcomes ==
    RunFailures
    \cup {Ended(0, text, err) : text \in ProbeTexts, err \in {"", "rate limit", "warning 2"}}
    \cup {Ended(1, text, "") : text \in LongProbeTexts \cup {"", "2"}}

\* the probe outcomes followed through a whole request
RequestProbeOutcomes ==
    {Failed("timeout"), Failed("spawn"),
     Ended(0, "2", ""), Ended(0, "5-hour limit reached", ""), Ended(0, "4", ""),
     Ended(1, "", "claude: not logged in"), Ended(0, "reset 2", ""),
     Ended(1, Repeat("x", ProbeMessageCut + MaxPadOver), "")}

\* what running the usage command can come to
UsageOutcomes ==
    RunFailures
    \cup {Ended(0, doc.text, "") : doc \in UsageDocuments}
    \cup {Ended(0, "not json", ""), Ended(0, "", ""),
          Ended(0, "{\"blocks\": []}", "npm warn deprecated"),
          Ended(1, "", "ccusage error"), Ended(1, "{\"blocks\": []}", ""),
          Ended(127, "", "")}
    \cup {Ended(2, "", Repeat("e", n)) : n \in Around(FailureDetailCut)}

\* the reading of the clock, 2025-08-23 13:59:30 UTC and later
ClockBase == Datetime(DaysFromCivil(2025, 8, 23), 13 * 3600 + 59 * 60 + 30, TRUE, 0)
Clock(k) ==
    LET total == ClockBase.sec + k * ClockStep
    IN  Datetime(ClockBase.day + total \div SecondsPerDay, total % SecondsPerDay, TRUE, 0)

\* plan tables with limits of 0, for the computation of the percentages
ZeroedTable(fields) ==
    [key \in DOMAIN PLAN_CONFIG |->
        [token_limit |-> IF "token" \in fields THEN 0 ELSE PLAN_CONFIG[key].token_limit,
         cost_limit |-> IF "cost" \in fields THEN RatInt(0) ELSE PLAN_CONFIG[key].cost_limit,
         message_limit |-> IF "message" \in fields THEN 0
                           ELSE PLAN_CONFIG[key].message_limit,
         display_name |-> PLAN_CONFIG[key].display_name]]

PlanTables == {ZeroedTable({}), ZeroedTable({"cost"}), ZeroedTable({"token", "message"})}

(***************************************************************************)
(* The state: one request at a time through get_ccusage_status.            *)
(***************************************************************************)
VARIABLES
    plan_config,   \* the plan table
    route,         \* the route of the request being served, "" when none
    pc,            \* where the request is: idle, probe, fetch, report, done
    plan,          \* the plan of the request
    test_cmd,      \* the probe command
    probe,         \* what running the probe command came to
    limit_info,    \* the result of the probe
    usage,         \* what running the usage command came to
    raw,           \* the output of the usage command
    now_utc,       \* the reading of the clock
    response       \* the response

vars == <<plan_config, route, pc, plan, test_cmd, probe, limit_info, usage, raw,
          now_utc, response>>

NotRun == [how |-> "none", returncode |-> 0, stdout |-> "", stderr |-> ""]
NoLimitInfo == LimitInfo("", "")
NoResponse == Response(0, "", NoBody)

Idle ==
    /\ route = "" /\ pc = "idle" /\ plan = "" /\ test_cmd = DefaultTestCmd
    /\ probe = NotRun /\ limit_info = NoLimitInfo /\ usage = NotRun /\ raw = ""
    /\ now_utc = ClockBase /\ response = NoResponse

Init == plan_config = PLAN_CONFIG /\ Idle

\* nothing of a request is kept after it
Forget ==
    /\ route' = "" /\ pc' = "idle" /\ plan' = "" /\ test_cmd' = DefaultTestCmd
    /\ probe' = NotRun /\ limit_info' = NoLimitInfo /\ usage' = NotRun /\ raw' = ""
    /\ now_utc' = ClockBase /\ response' = NoResponse
    /\ UNCHANGED plan_config

\* GET /status?plan=p: status() calls get_ccusage_status(plan), which
\* resolves the plan first
GetStatus(p) ==
    /\ pc = "idle"
    /\ route' = "/status"
    /\ plan' = p
    /\ LET cfg == _normalize_plan(plan_config, p)
       IN  IF Raised(cfg)
           THEN pc' = "done" /\ response' = status(cfg)
           ELSE pc' = "probe" /\ response' = response
    /\ UNCHANGED <<plan_config, test_cmd, probe, limit_info, usage, raw, now_utc>>

\* limit_info = _probe_limit_via_claude(test_cmd)
ProbeLimit(outcome) ==
    /\ pc = "probe"
    /\ probe' = outcome
    /\ LET result == _probe_limit_via_claude(test_cmd, outcome)
       IN  IF Raised(result)
           THEN pc' = "done" /\ response' = status(result) /\ limit_info' = limit_info
           ELSE pc' = "fetch" /\ response' = response /\ limit_info' = result.val
    /\ UNCHANGED <<plan_config, route, plan, test_cmd, usage, raw, now_utc>>

\* code, raw = _run([...]); if code != 0: raise RuntimeError(...)
FetchUsage(outcome) ==
    /\ pc = "fetch"
    /\ usage' = outcome
    /\ LET ran == _run(UsageCmd, outcome)
       IN  IF Raised(ran)
           THEN pc' = "done" /\ response' = status(ran) /\ raw' = raw
           ELSE IF ran.val.code # 0
           THEN /\ pc' = "done" /\ raw' = ran.val.out
                /\ response' = status(Raise(CcusageFailed(ran.val.out)))
           ELSE pc' = "report" /\ response' = response /\ raw' = ran.val.out
    /\ UNCHANGED <<plan_config, route, plan, test_cmd, probe, limit_info, now_utc>>

\* the rest of get_ccusage_status, and the answer of status()
BuildReport(k) ==
    /\ pc = "report"
    /\ now_utc' = Clock(k)
    /\ \E result \in Report(_normalize_plan(plan_config, plan).val, limit_info, raw, Clock(k)) :
          response' = status(result)
    /\ pc' = "done"
    /\ UNCHANGED <<plan_config, route, plan, test_cmd, probe, limit_info, usage, raw>>

\* GET /health
GetHealth ==
    /\ pc = "idle"
    /\ route' = "/health"
    /\ response' = health
    /\ pc' = "done"
    /\ UNCHANGED <<plan_config, plan, test_cmd, probe, limit_info, usage, raw, now_utc>>

\* the response is sent; the next request finds nothing of this one
Respond ==
    /\ pc = "done"
    /\ Forget

Next ==
    \/ \E p \in Plans : GetStatus(p)
    \/ \E outcome \in RequestProbeOutcomes : ProbeLimit(outcome)
    \/ \E outcome \in UsageOutcomes : FetchUsage(outcome)
    \/ \E k \in 0..MaxClock : BuildReport(k)
    \/ GetHealth
    \/ Respond

Spec == Init /\ [][Next]_vars

(***************************************************************************)
(* The percentages over plan tables with limits of 0.                      *)
(***************************************************************************)
InitTables == plan_config \in PlanTables /\ Idle

SpecTables == InitTables /\ [][Next]_vars

(***************************************************************************)
(* The probe on its own: _probe_limit_via_claude called with any command.  *)
(***************************************************************************)
CallProbe(cmd, outcome) ==
    /\ pc = "idle"
    /\ test_cmd' = cmd
    /\ probe' = outcome
    /\ LET result == _probe_limit_via_claude(cmd, outcome)
       IN  IF Raised(result)
           THEN pc' = "raised" /\ limit_info' = limit_info
           ELSE pc' = "returned" /\ limit_info' = result.val
    /\ UNCHANGED <<plan_config, route, plan, usage, raw, now_utc, response>>

ProbeDone ==
    /\ pc \in {"returned", "raised"}
    /\ Forget

NextProbe ==
    \/ \E cmd \in TestCommands, outcome \in ProbeOutcomes : CallProbe(cmd, outcome)
    \/ ProbeDone

SpecProbe == Init /\ [][NextProbe]_vars

(***************************************************************************)
(* What the properties speak of.                                           *)
(***************************************************************************)
KnownPlans == {"Pro", "Max5", "Max20"}

\* a GET /status request has been answered
Answered == route = "/status" /\ pc = "done"

\* it has been answered with a report
Reported == Answered /\ response.status_code = 200

\* the output of the probe command, when it ended
ProbeOut == _run(test_cmd, probe).val.out

\* the output of the usage command, when it ended
UsageOut == _run(UsageCmd, usage).val.out

\* the usage block of a report
ReportedBlock == FirstBlock(JsonLoads(raw).val).val

\* the plan's limits of a request with a known plan
ReportedConfig == plan_config[plan]

\* p is x rounded to places decimals: a multiple of 10^-places next to x
IsRounded(p, x, places) ==
    LET diff == RatSub(p, x)
    IN  /\ Pow10(places) % p.d = 0
        /\ 2 * Pow10(places) * Abs(diff.n) <= diff.d

\* a is not earlier than b (both UTC)
NotEarlier(a, b) == a.day > b.day \/ (a.day = b.day /\ a.sec >= b.sec)

(***************************************************************************)
(* C1.  A request with a recognized plan is never ended by the probe: the  *)
(* usage command is run after it whatever the probe came to (output, error *)
(* output, a time-out or a failure to spawn), the HTTP status is the one   *)
(* the usage command and the calculation give with any other probe result, *)
(* and when they succeed the answer is 200, the probe's result is the      *)
(* report's limit, of type "error" when the probe command failed to run.   *)
(***************************************************************************)
StatusWithoutProbe ==
    LET ran == _run(UsageCmd, usage)
    IN  IF Raised(ran) THEN {status(ran).status_code}
        ELSE IF ran.val.code # 0 THEN {502}
        ELSE {status(r).status_code :
                r \in Report(ReportedConfig, NoLimitInfo, ran.val.out, now_utc)}

C1_ProbeNeverFatal ==
    (route = "/status" /\ plan \in KnownPlans) =>
        /\ pc = "fetch" => response = NoResponse /\ probe # NotRun
        /\ pc = "done" =>
            /\ probe # NotRun /\ usage # NotRun
            /\ response.status_code \in StatusWithoutProbe
            /\ StatusWithoutProbe = {200} =>
                /\ response.body.limit = limit_info
                /\ probe.how # "ended" => response.body.limit.type = "error"

C1_Witness ==
    /\ Reported
    /\ probe.how = "timeout"
    /\ response.body.limit.type = "error"

(***************************************************************************)
(* C2.  A usage output that is no JSON, has no "blocks" list or an empty   *)
(* one, a first block without endTime or an endTime that is no timestamp   *)
(* fails the request with 502.                                             *)
(***************************************************************************)
MalformedUsage ==
    LET data == JsonLoads(raw)
        blocks == data.val.blocks
    IN  \/ Raised(data)
        \/ data.val.type # "object"
        \/ ~blocks.present
        \/ blocks.v = <<>>
        \/ ~blocks.v[1].endTime.present
        \/ Raised(_utc_from_iso8601(blocks.v[1].endTime.v))

C2_MalformedUsageIs502 ==
    (Answered /\ plan \in KnownPlans /\ usage.how = "ended" /\ usage.returncode = 0
        /\ MalformedUsage)
    => response.status_code = 502

(***************************************************************************)
(* C3.  When the usage command ends with a code other than 0, the request  *)
(* with a recognized plan fails with 502, its detail holds the first 200   *)
(* characters of the command's output, and there is no report, whatever    *)
(* the probe returned.                                                     *)
(***************************************************************************)
C3_UsageFailureIs502 ==
    (Answered /\ plan \in KnownPlans /\ usage.how = "ended" /\ usage.returncode # 0)
    => /\ response.status_code = 502
       /\ response.body = NoBody
       /\ Contains(response.detail, Prefix(UsageOut, FailureDetailCut))
       /\ Len(response.detail) <= Len("ccusage failed: ") + FailureDetailCut

C3_Witness ==
    /\ Answered
    /\ usage.returncode # 0
    /\ Len(UsageOut) > FailureDetailCut
    /\ limit_info.type = "limit"
    /\ response.status_code = 502

(***************************************************************************)
(* C4.  The plan is matched exactly, case and all, against "Pro", "Max5"   *)
(* and "Max20": a report for one of them carries that plan's name and its  *)
(* cost, token and message limits of the static table, and any other plan  *)
(* fails the request with 400 before any command is run.                   *)
(***************************************************************************)
C4_PlanResolution ==
    route = "/status" =>
        IF plan \in KnownPlans
        THEN Reported =>
                /\ response.body.plan = plan
                /\ response.body.cost.limit = PLAN_CONFIG[plan].cost_limit
                /\ response.body.tokens.limit = PLAN_CONFIG[plan].token_limit
                /\ response.body.messages.limit = PLAN_CONFIG[plan].message_limit
        ELSE /\ pc = "done"
             /\ response = Response(400, "Unknown plan: " \o plan, NoBody)
             /\ probe = NotRun /\ usage = NotRun

C4_Witness ==
    /\ Reported
    /\ plan = "Max20"
    /\ response.body.plan = "Max20"
    /\ response.body.tokens.limit = 220000

(***************************************************************************)
(* C5.  The probe classifies its output in a fixed order of precedence.    *)
(***************************************************************************)
\* "reset", then "at", "on" or "in", then text: the hint with its word required
ResetAtOnInHint(out) ==
    LET starts == 1..Len(out)
        r1 == ReOptChar(out, ReLit(out, starts, "reset"), {"s", "S"})
        r2 == ReAlt(out, ReSpaces(out, r1), {"at", "on", "in"})
        r3 == ReOptChar(out, ReSpaces(out, r2), {":", "-"})
    IN  ReWhen(out, ReSpaces(out, r3))

\* "reset", in any case, with at least one character after it
ResetFollowed(out) == \E i \in 1..(Len(out) - 5) : LitAt(out, i, "reset")

Classified(out, limited) ==
    IF limited THEN "limit"
    ELSE IF ~Contains(out, "2") THEN "error"
    ELSE "not_limited"

\* C5 as stated: LimitHit when the output matches a limit pattern or a
\* "reset at/on/in <text>" hint, whatever else it holds; else Error when it
\* holds no "2"; else NotLimited.
C5_ClassifiedByAtOnInHint ==
    (pc = "returned" /\ probe.how = "ended")
    => limit_info.type = Classified(ProbeOut, LIMIT_HIT(ProbeOut) \/ ResetAtOnInHint(ProbeOut))

\* C5 as amended: LimitHit when the output matches a limit pattern ("5",
\* "hour", "limit" and "reached" or "readched", or "rate" and "limit", any
\* case, the space between them free) or holds "reset", any case, followed by
\* at least one more character (the word at/on/in is optional), whatever else
\* it holds, a "2" included; else Error when it holds no "2"; else
\* NotLimited.  Every output gets exactly one of the three types.
C5_Classified ==
    /\ pc # "raised"
    /\ (pc = "returned" /\ probe.how = "ended")
       => /\ limit_info.type = Classified(ProbeOut, LIMIT_HIT(ProbeOut) \/ ResetFollowed(ProbeOut))
          /\ limit_info.type \in {"limit", "error", "not_limited"}

C5_Witness ==
    /\ pc = "returned"
    /\ probe.how = "ended"
    /\ Contains(ProbeOut, "2")
    /\ ~LIMIT_HIT(ProbeOut)
    /\ ~ResetAtOnInHint(ProbeOut)
    /\ limit_info.type = "limit"

(***************************************************************************)
(* C6.  A probe result of type error or limit carries a message of at most *)
(* 500 characters.                                                         *)
(***************************************************************************)
C6_MessageAtMost500 ==
    (pc = "returned" /\ limit_info.type \in {"error", "limit"})
    => Len(limit_info.message) <= ProbeMessageCut

ReportedBurnRate ==
    LET burn == ReportedBlock.burnRate
    IN  IF burn.present /\ burn.v.tokensPerMinuteForIndicator.present
        THEN burn.v.tokensPerMinuteForIndicator.v
        ELSE RatInt(0)

C8_RunOutPrediction ==
    Reported =>
        LET total == Get(ReportedBlock.totalTokens, 0)
            left == ReportedConfig.token_limit * 1000 - total
            at == PlusMinutes(now_utc, RatInt(IF left > 0 THEN left ELSE 0),
                              ReportedBurnRate).val
            told == response.body.predictions.tokens_will_run_out
        IN  /\ ReportedBurnRate.n <= 0 => told = "N/A"
            /\ ReportedBurnRate.n > 0 =>
                /\ told # "N/A"
                /\ told = _fmt_utc(at)
                /\ NotEarlier(at, now_utc)

C8_Witness ==
    /\ Reported
    /\ ReportedBlock.burnRate.present
    /\ ReportedBlock.burnRate.v.tokensPerMinuteForIndicator = Present(RatInt(0))
    /\ response.body.predictions.tokens_will_run_out = "N/A"

(***************************************************************************)
(* C9.  In a report, remaining_minutes is the whole minutes from now to    *)
(* the reset, and 0 when the reset is now or past: it is never negative.   *)
(***************************************************************************)
SecondsToReset ==
    SecondsBetween(_utc_from_iso8601(ReportedBlock.endTime.v).val, now_utc).val

C9_RemainingMinutes ==
    Reported =>
        LET left == response.body.time_to_reset.remaining_minutes
        IN  /\ left >= 0
            /\ SecondsToReset <= 0 => left = 0
            /\ SecondsToReset > 0 =>
                left * 60 <= SecondsToReset /\ SecondsToReset < (left + 1) * 60

C9_Witness ==
    /\ Reported
    /\ SecondsToReset < -60
    /\ response.body.time_to_reset.remaining_minutes = 0

(***************************************************************************)
(* C10.  In a report, each of cost.percent, tokens.percent and             *)
(* messages.percent is 0 when the limit beside it is 0, and else the used  *)
(* value beside it over that limit, times 100, rounded to one decimal.     *)
(***************************************************************************)
PercentOf(used, limit, percent) ==
    IF limit.n = 0 THEN percent = RatInt(0)
    ELSE IsRounded(percent, RatDiv(RatMul(used, RatInt(100)), limit), 1)

C10_Percentages ==
    Reported =>
        LET body == response.body
        IN  /\ PercentOf(body.cost.used, body.cost.limit, body.cost.percent)
            /\ PercentOf(body.tokens.used, RatInt(body.tokens.limit), body.tokens.percent)
            /\ PercentOf(RatInt(body.messages.used), RatInt(body.messages.limit),
                         body.messages.percent)

C10_Witness ==
    /\ Reported
    /\ response.body.cost.limit = RatInt(0)
    /\ response.body.cost.used.n > 0
    /\ response.body.cost.percent = RatInt(0)
    /\ response.body.tokens.percent.n > 0
    /\ response.body.messages.percent.n > 0

====
